---- MODULE Spec2Model ----
(***************************************************************************)
(* Model of MiPi-1wire-rs (src/src/main.rs): an HTTP endpoint that reads   *)
(* DS18B20 one-wire sensors through the kernel's w1 files and serves the   *)
(* readings as an XML report.                                              *)
(*                                                                         *)
(* Text is modelled as follows.  A line of a per-device file is a sequence *)
(* of one-character strings, so that split("=") and i32::from_str_radix    *)
(* are computed character by character.  Sensor ids and the lines of the   *)
(* report are strings; the report body is the sequence of its lines, each  *)
(* line standing for the text followed by "\n".  An f32 is the record      *)
(* [s, m, e] with value s * m * 2^e, m = 0 or 2^23 <= m < 2^24, and the    *)
(* arithmetic rounds to nearest, ties to even, as IEEE-754 binary32 does.  *)
(***************************************************************************)
EXTENDS Integers, Sequences, FiniteSets, TLC

(***************************************************************************)
(* Bounds of the model.                                                    *)
(***************************************************************************)
MaxIds == 2
MaxLineLen == 3

(***************************************************************************)
(* Result<T, AnyError>: Ok(v), Err(description), and a panic.              *)
(***************************************************************************)
Ok(v) == [ok |-> TRUE, val |-> v]
Err(msg) == [ok |-> FALSE, err |-> msg]
Panic(msg) == [ok |-> FALSE, panic |-> msg]
IsOk(r) == r.ok
IsErr(r) == ~r.ok /\ "err" \in DOMAIN r
IsPanic(r) == ~r.ok /\ "panic" \in DOMAIN r

(***************************************************************************)
(* binary32 arithmetic.                                                    *)
(***************************************************************************)
I32Max == 2147483647
I32Min == -I32Max - 1
Two23 == 8388608
Two24 == 2 * Two23
Two25 == 2 * Two24

RECURSIVE Pow2(_)
Pow2(k) == IF k = 0 THEN 1 ELSE 2 * Pow2(k - 1)

F32Zero == [s |-> 1, m |-> 0, e |-> 0]

\* q * 2^e with q < 2^25 whose lowest bit is the guard bit, and sticky saying
\* that nonzero bits were dropped below it: round to 24 bits, ties to even.
RoundGuard(s, q, sticky, e) ==
    LET m0 == q \div 2
        guard == q % 2 = 1
        up == guard /\ (sticky \/ m0 % 2 = 1)
        m1 == IF up THEN m0 + 1 ELSE m0
    IN  IF m1 = Two24 THEN [s |-> s, m |-> Two23, e |-> e + 2]
        ELSE [s |-> s, m |-> m1, e |-> e + 1]

\* The binary32 nearest to s * (q + f) * 2^e where 0 <= f < 1 and f > 0 iff
\* sticky; q > 0.  A q below 2^24 carries no dropped bits (sticky is FALSE).
RECURSIVE Pack(_, _, _, _)
Pack(s, q, sticky, e) ==
    IF q = 0 THEN F32Zero
    ELSE IF q < Two24 THEN Pack(s, 2 * q, sticky, e - 1)
    ELSE IF q >= Two25 THEN Pack(s, q \div 2, sticky \/ q % 2 = 1, e + 1)
    ELSE RoundGuard(s, q, sticky, e)

\* Long division: (q + r/d) * 2^e, doubled until q has 25 significant bits.
RECURSIVE DivScale(_, _, _, _, _)
DivScale(s, q, r, d, e) ==
    IF q >= Two24 \/ (q = 0 /\ r = 0) THEN Pack(s, q, r > 0, e)
    ELSE DivScale(s, 2 * q + (IF 2 * r >= d THEN 1 ELSE 0), (2 * r) % d, d, e - 1)

\* `temp as f32` for an i32.
F32FromI32(i) ==
    IF i = I32Min THEN [s |-> -1, m |-> Two23, e |-> 8]
    ELSE IF i < 0 THEN Pack(-1, -i, FALSE, 0)
    ELSE Pack(1, i, FALSE, 0)

\* x * k and x / k for a small positive integer k (exactly representable).
F32MulSmall(x, k) == Pack(x.s, x.m * k, FALSE, x.e)
F32DivSmall(x, k) == DivScale(x.s, x.m \div k, x.m % k, k, x.e)

\* x + k for a small positive integer k, where |x| < 2^22 (so x.e < 0).
F32AddSmall(x, k) ==
    IF x.m = 0 THEN F32FromI32(k)
    ELSE LET n == x.s * x.m
             sh == -x.e
         IN  IF sh <= 25
             THEN LET t == n + k * Pow2(sh)
                  IN  IF t < 0 THEN Pack(-1, -t, FALSE, x.e) ELSE Pack(1, t, FALSE, x.e)
             ELSE LET low == Pow2(sh - 25)
                      t == (n \div low) + k * Pow2(25)
                  IN  Pack(1, t, n % low # 0, -25)

(***************************************************************************)
(* format!("{:.1}", x): the exact value rounded to one decimal, ties to    *)
(* even; the sign is printed for every negative value.                     *)
(***************************************************************************)
Tenths(x) ==
    LET t == x.m * 10
        sh == -x.e
    IN  IF x.m = 0 \/ sh >= 30 THEN 0
        ELSE LET p == Pow2(sh)
                 q == t \div p
                 r == t % p
             IN  IF 2 * r > p \/ (2 * r = p /\ q % 2 = 1) THEN q + 1 ELSE q

FormatOneDecimal(x) ==
    LET t == Tenths(x)
    IN  (IF x.s < 0 /\ x.m # 0 THEN "-" ELSE "")
            \o ToString(t \div 10) \o "." \o ToString(t % 10)

(***************************************************************************)
(* Text helpers.                                                           *)
(***************************************************************************)
Digits == {"0", "1", "2", "3", "4", "5", "6", "7", "8", "9"}
DigitVal(c) ==
    CASE c = "0" -> 0 [] c = "1" -> 1 [] c = "2" -> 2 [] c = "3" -> 3 [] c = "4" -> 4
      [] c = "5" -> 5 [] c = "6" -> 6 [] c = "7" -> 7 [] c = "8" -> 8 [] c = "9" -> 9

Tail2(s) == SubSeq(s, 2, Len(s))

\* str::split(sep): the pieces between the separators, at least one piece.
RECURSIVE SplitFrom(_, _, _, _)
SplitFrom(s, sep, i, cur) ==
    IF i > Len(s) THEN <<cur>>
    ELSE IF s[i] = sep THEN <<cur>> \o SplitFrom(s, sep, i + 1, <<>>)
    ELSE SplitFrom(s, sep, i + 1, Append(cur, s[i]))
Split(s, sep) == SplitFrom(s, sep, 1, <<>>)

\* Iterator::next() of a sequence seen as an iterator positioned at index i.
IterNext(items, i) == IF i <= Len(items) THEN Ok(items[i]) ELSE Err("none")

\* The digit loop of i32::from_str_radix: checked_mul(10) then checked_add /
\* checked_sub of each digit, left to right.
RECURSIVE ParseDigits(_, _, _, _)
ParseDigits(ds, i, acc, positive) ==
    IF i > Len(ds) THEN Ok(acc)
    ELSE IF ds[i] \notin Digits THEN Err("invalid digit found in string")
    ELSE LET d == DigitVal(ds[i])
         IN  IF positive
             THEN IF acc > (I32Max - d) \div 10
                  THEN Err("number too large to fit in target type")
                  ELSE ParseDigits(ds, i + 1, acc * 10 + d, positive)
             ELSE IF acc < -(I32Max \div 10) \/ acc * 10 < I32Min + d
                  THEN Err("number too small to fit in target type")
                  ELSE ParseDigits(ds, i + 1, acc * 10 - d, positive)

\* Mutant: text that is not a number is read as 0.
from_str_radix_OrZero(src) ==
    IF Len(src) = 0 \/ \E k \in DOMAIN src : src[k] \notin Digits THEN Ok(0)
    ELSE ParseDigits(src, 1, 0, TRUE)

\* i32::from_str_radix(src, 10).
from_str_radix(src) ==
    IF Len(src) = 0 THEN Err("cannot parse integer from empty string")
    ELSE IF src[1] \in {"+", "-"} /\ Len(src) = 1
         THEN Err("invalid digit found in string")
    ELSE IF src[1] = "+" THEN ParseDigits(Tail2(src), 1, 0, TRUE)
    ELSE IF src[1] = "-" THEN ParseDigits(Tail2(src), 1, 0, FALSE)
    ELSE ParseDigits(src, 1, 0, TRUE)

(***************************************************************************)
(* The files the hardware-backed sensor reads.  A file is NoFile when      *)
(* File::open fails, else File(lines); a line that is not valid UTF-8 is   *)
(* BadUtf8Line (BadUtf8Id in the device list).                             *)
(***************************************************************************)
NoFile == [exists |-> FALSE, lines |-> <<>>]
File(lines) == [exists |-> TRUE, lines |-> lines]
BadUtf8Line == <<"\\xFF">>
BadUtf8Id == "\\xFF"
OpenError == "No such file or directory (os error 2)"
Utf8Error == "stream did not contain valid UTF-8"

\* Mutant: blank lines of the device list are skipped.
RECURSIVE PushLines_SkipEmpty(_, _, _)
PushLines_SkipEmpty(lines, i, ids) ==
    IF i > Len(lines) THEN Ok(ids)
    ELSE IF lines[i] = BadUtf8Id THEN Err(Utf8Error)
    ELSE PushLines_SkipEmpty(lines, i + 1,
                             IF lines[i] = "" THEN ids ELSE Append(ids, lines[i]))

\* for id in BufReader::new(file).lines() { ids.push(id?); }
RECURSIVE PushLines(_, _, _)
PushLines(lines, i, ids) ==
    IF i > Len(lines) THEN Ok(ids)
    ELSE IF lines[i] = BadUtf8Id THEN Err(Utf8Error)
    ELSE PushLines(lines, i + 1, Append(ids, lines[i]))

\* RealSensor::get_ids over the content of w1_master_slaves.
RealSensor_get_ids(file) ==
    IF ~file.exists THEN Err(OpenError) ELSE PushLines(file.lines, 1, <<>>)

\* Mutant: the number is taken after the last '='.
TokenAfterEq_Last(tokens) ==
    IF Len(tokens) >= 2 THEN Ok(tokens[Len(tokens)]) ELSE Err("none")

\* tokens.next() for the second time: the piece after the first '='.
TokenAfterEq(tokens) == IterNext(tokens, 2)

\* RealSensor::get_celcius over the content of <id>/w1_slave.
RealSensor_get_celcius(file) ==
    IF ~file.exists THEN Err(OpenError)
    ELSE LET crc == IterNext(file.lines, 1)
             data == IterNext(file.lines, 2)
         IN  IF ~IsOk(crc) THEN Err("missing crc line")
             ELSE IF crc.val = BadUtf8Line THEN Err(Utf8Error)
             ELSE IF ~IsOk(data) THEN Err("missing data line")
             ELSE IF data.val = BadUtf8Line THEN Err(Utf8Error)
             ELSE LET tokens == Split(data.val, "=")
                      before == IterNext(tokens, 1)
                      after == TokenAfterEq(tokens)
                  IN  IF ~IsOk(before) THEN Err("missing before = token")
                      ELSE IF ~IsOk(after) THEN Err("missing after = token")
                      ELSE LET temp == from_str_radix(after.val)
                           IN  IF ~IsOk(temp) THEN temp
                               ELSE Ok(F32DivSmall(F32FromI32(temp.val), 1000))

\* FakeSensor.
FakeSensor_get_ids == Ok(<<"id1", "id2", "id3">>)
FakeSensor_get_celcius(id) ==
    CASE id = "id1" -> Ok(F32Zero)
      [] id = "id2" -> Ok(F32FromI32(100))
      [] id = "id3" -> Ok(F32FromI32(-40))
      [] OTHER -> Panic("internal error: entered unreachable code")

(***************************************************************************)
(* Clock: an OffsetDateTime is [year, month, day, hour, minute].           *)
(***************************************************************************)
Pad2(n) == IF n < 10 THEN "0" \o ToString(n) ELSE ToString(n)

\* OffsetDateTime::format("%Y-%m-%d %H-%M")
FormatTime(t) ==
    ToString(t.year) \o "-" \o Pad2(t.month) \o "-" \o Pad2(t.day)
        \o " " \o Pad2(t.hour) \o "-" \o Pad2(t.minute)

\* tests::FakeClock::now_local: date!(2020-01-01).midnight()
FakeClock_now_local ==
    [year |-> 2020, month |-> 1, day |-> 1, hour |-> 0, minute |-> 0]

\* The instants RealClock::now_local may return.
Times ==
    { FakeClock_now_local,
      [year |-> 2026, month |-> 11, day |-> 30, hour |-> 23, minute |-> 5] }

(***************************************************************************)
(* The text get_temps builds, line by line.                                *)
(***************************************************************************)
Header(now) == <<"<a updated='" \o now \o "'>">>

\* Mutant: the offset of the Fahrenheit scale is left out.
Fahrenheit_NoOffset(temp) == F32DivSmall(F32MulSmall(temp, 9), 5)

\* temp*9.0/5.0 + 32.0
Fahrenheit(temp) == F32AddSmall(F32DivSmall(F32MulSmall(temp, 9), 5), 32)

OwdBlock(id, temp) ==
    << "<owd>",
       "<Name>DS18B20</Name>",
       "<ROMId>" \o id \o "</ROMId>",
       "<Temperature>" \o FormatOneDecimal(temp) \o "</Temperature>",
       "<TemperatureF>" \o FormatOneDecimal(Fahrenheit(temp)) \o "</TemperatureF>",
       "</owd>" >>

Footer == <<"</a>">>

\* format!("Error: {}", e)
ErrorBody(e) == <<"Error: " \o e>>

(***************************************************************************)
(* Inputs.                                                                 *)
(***************************************************************************)
SeqsUpTo(S, n) == UNION {[1..k -> S] : k \in 0..n}

\* Lines of w1_master_slaves, and the contents the file may have.
SensorIds == {"a", "b"}
DeviceLists == {NoFile} \cup {File(l) : l \in SeqsUpTo(SensorIds, MaxIds)}

\* The first line of a w1_slave file ("... : crc=da YES"), shortened.
CrcLine == <<"c", "r", "c", "=", "d", "a", " ", "Y", "E", "S">>
DataLine23125 == <<"t", "=", "2", "3", "1", "2", "5">>
DataLineNeg == <<"t", "=", "-", "1", "0", "6", "2">>
DataLineTwoEq == <<"a", "=", "1", "0", "0", "0", "=", "2", "0", "0", "0">>
DataLineTooLarge == <<"t", "=", "2", "1", "4", "7", "4", "8", "3", "6", "4", "8">>
DataLineMin == <<"t", "=", "-", "2", "1", "4", "7", "4", "8", "3", "6", "4", "8">>
DataLineTooSmall == <<"t", "=", "-", "2", "1", "4", "7", "4", "8", "3", "6", "4", "9">>
DataLinePlus == <<"t", "=", "+", "0", "8", "5", "0", "0", "0">>
DataLineAbc == <<"t", "=", "a", "b", "c">>

\* The contents a w1_slave file may have when a request reads it.
SlaveFiles ==
    { NoFile, File(<<CrcLine, DataLine23125>>), File(<<CrcLine>>) }

\* The inputs of the unit harness: every data line of at most MaxLineLen
\* characters over LineChars and a few longer ones, after either first line;
\* and every device list of at most MaxIds lines over ListLines.
LineChars == {"=", "-", "7", "t"}
DataLines ==
    SeqsUpTo(LineChars, MaxLineLen)
        \cup {DataLine23125, DataLineNeg, DataLineTwoEq, DataLineTooLarge, DataLineMin,
              DataLineTooSmall, DataLinePlus, DataLineAbc, BadUtf8Line}
FirstLines == {CrcLine, <<>>}
ProbeSlaveFiles ==
    {NoFile, File(<<>>), File(<<BadUtf8Line, DataLine23125>>)}
        \cup {File(<<c>>) : c \in FirstLines}
        \cup {File(<<c, d>>) : c \in FirstLines, d \in DataLines}
        \cup {File(<<CrcLine, d, <<>>>>) : d \in {DataLine23125, <<>>}}
ListLines == {"", "a", "b", BadUtf8Id}
ProbeDeviceLists == {NoFile} \cup {File(l) : l \in SeqsUpTo(ListLines, MaxIds)}

Methods == {"GET", "POST"}
Paths == {"/details.xml", "/"}

\* std::env::var("TEST_MODE")
EnvUnset == Err("environment variable not found")
EnvValues == {EnvUnset, Ok("1"), Ok("true")}

(***************************************************************************)
(* State.                                                                  *)
(***************************************************************************)
Reqs == {"c1", "c2"}
TestProc == "test"
Procs == Reqs \cup {TestProc}

VARIABLES
    env,          \* the value of TEST_MODE in the process environment
    proc,         \* per running read_temp / get_temps: locals and position
    test_outcome, \* tests::format_temps: "none", "passed", "failed"
    probe         \* unit harness applying one Sensor function to one input
vars == <<env, proc, test_outcome, probe>>

NoResult == [ok |-> FALSE, unset |-> TRUE]

IdleProc ==
    [ pc |-> "idle", method |-> "", path |-> "", clock |-> "", sensor |-> "",
      now |-> "", ids |-> <<>>, i |-> 0, body |-> <<>>, result |-> NoResult,
      status |-> 0, resp_body |-> <<>>, content_type |-> "", calls |-> <<>> ]

NoProbe == [pc |-> "off", fn |-> "", input |-> <<>>, output |-> NoResult]

Call(op, src, arg, ret) == [op |-> op, src |-> src, arg |-> arg, ret |-> ret]

InitProcs == proc = [p \in Procs |-> IdleProc]

Init ==
    /\ env \in EnvValues
    /\ InitProcs
    /\ test_outcome = "none"
    /\ probe = NoProbe

(***************************************************************************)
(* read_temp, up to the call of get_temps.                                 *)
(***************************************************************************)
\* service_fn(read_temp) is called with a request; Response::new(Body::empty())
Receive(p, m, u) ==
    /\ proc[p].pc \in {"idle", "done", "panicked"}
    /\ proc' = [proc EXCEPT ![p] =
                   [IdleProc EXCEPT !.pc = "match", !.method = m, !.path = u,
                                    !.status = 200]]
    /\ UNCHANGED <<env, test_outcome, probe>>

\* Mutant: the route is matched on the path alone.
RouteMatches_PathOnly(m, u) == u = "/details.xml"

\* (&Method::GET, "/details.xml")
RouteMatches(m, u) == m = "GET" /\ u = "/details.xml"

\* Mutant: any set value of TEST_MODE selects the stand-in.
SelectSensor_AnySet(e) == IF IsOk(e) THEN "FakeSensor" ELSE "RealSensor"

\* std::env::var("TEST_MODE").as_ref().map(|s| s.as_str()) == Ok("1")
SelectSensor(e) == IF e = Ok("1") THEN "FakeSensor" ELSE "RealSensor"

read_temp_match(p) ==
    /\ proc[p].pc = "match"
    /\ IF RouteMatches(proc[p].method, proc[p].path)
       THEN proc' = [proc EXCEPT ![p].sensor = SelectSensor(env),
                                 ![p].clock = "RealClock",
                                 ![p].pc = "now"]
       ELSE proc' = [proc EXCEPT ![p].status = 404, ![p].pc = "done"]
    /\ UNCHANGED <<env, test_outcome, probe>>

(***************************************************************************)
(* get_temps::<C, S>, one step per call into the two sources.              *)
(***************************************************************************)
get_temps_now(p) ==
    /\ proc[p].pc = "now"
    /\ \E t \in (IF proc[p].clock = "FakeClock" THEN {FakeClock_now_local} ELSE Times) :
         LET now == FormatTime(t)
         IN  proc' = [proc EXCEPT
                 ![p].now = now,
                 ![p].body = Header(now),
                 ![p].calls = Append(@, Call("now_local", proc[p].clock, "", Ok(now))),
                 ![p].pc = "get_ids"]
    /\ UNCHANGED <<env, test_outcome, probe>>

\* let ids = S::get_ids()?;
AfterGetIds(st, r) ==
    LET logged == [st EXCEPT !.calls = Append(@, Call("get_ids", st.sensor, "", r))]
    IN  IF IsOk(r)
        THEN [logged EXCEPT !.ids = r.val, !.i = 1, !.pc = "loop"]
        ELSE [logged EXCEPT !.result = r, !.pc = "ret"]

get_temps_get_ids(p) ==
    /\ proc[p].pc = "get_ids"
    /\ \E r \in (IF proc[p].sensor = "FakeSensor" THEN {FakeSensor_get_ids}
                 ELSE {RealSensor_get_ids(f) : f \in DeviceLists}) :
         proc' = [proc EXCEPT ![p] = AfterGetIds(proc[p], r)]
    /\ UNCHANGED <<env, test_outcome, probe>>

\* Mutant: the id vector is shared by the running requests, so an iteration
\* may pick up the id another request enumerated.
CurrentId_Shared(p) ==
    LET others == {q \in Procs \ {p} : proc[p].i <= Len(proc[q].ids)}
    IN  IF others = {} THEN proc[p].ids[proc[p].i]
        ELSE LET q == CHOOSE q \in others : TRUE IN proc[q].ids[proc[p].i]

\* The id of the current iteration of `for id in &ids`.
CurrentId(p) == proc[p].ids[proc[p].i]

\* Mutant: a failed read is skipped and the loop goes on to the next id.
AfterGetCelcius_Continue(st, id, r) ==
    LET logged == [st EXCEPT !.calls = Append(@, Call("get_celcius", st.sensor, id, r))]
    IN  IF IsOk(r)
        THEN [logged EXCEPT !.body = @ \o OwdBlock(id, r.val), !.i = @ + 1]
        ELSE [logged EXCEPT !.i = @ + 1]

\* Mutant: a record is inserted right after the root line instead of at the end.
AppendBlock_Front(body, block) == <<body[1]>> \o block \o Tail(body)

\* body += "<owd>\n"; ...; body += "</owd>\n";
AppendBlock(body, block) == body \o block

\* let temp = S::get_celcius(&id)?; body += ...
AfterGetCelcius(st, id, r) ==
    LET logged == [st EXCEPT !.calls = Append(@, Call("get_celcius", st.sensor, id, r))]
    IN  IF IsOk(r)
        THEN [logged EXCEPT !.body = AppendBlock(@, OwdBlock(id, r.val)), !.i = @ + 1]
        ELSE IF IsPanic(r) THEN [logged EXCEPT !.pc = "panicked"]
        ELSE [logged EXCEPT !.result = r, !.pc = "ret"]

get_temps_read(p) ==
    /\ proc[p].pc = "loop"
    /\ proc[p].i <= Len(proc[p].ids)
    /\ LET id == CurrentId(p)
       IN  \E r \in (IF proc[p].sensor = "FakeSensor" THEN {FakeSensor_get_celcius(id)}
                     ELSE {RealSensor_get_celcius(f) : f \in SlaveFiles}) :
             proc' = [proc EXCEPT ![p] = AfterGetCelcius(proc[p], id, r)]
    /\ UNCHANGED <<env, test_outcome, probe>>

\* body += "</a>\n"; println!; Ok(body)
get_temps_finish(p) ==
    /\ proc[p].pc = "loop"
    /\ proc[p].i > Len(proc[p].ids)
    /\ proc' = [proc EXCEPT ![p].body = @ \o Footer,
                            ![p].result = Ok(proc[p].body \o Footer),
                            ![p].pc = "ret"]
    /\ UNCHANGED <<env, test_outcome, probe>>

(***************************************************************************)
(* read_temp, from the result of get_temps to the response.                *)
(***************************************************************************)
XmlContentType == "application/xml; charset=utf-8"

\* Mutant: the error is appended to what get_temps had built so far.
RespondTo_Partial(st) ==
    IF IsOk(st.result)
    THEN [st EXCEPT !.resp_body = st.result.val, !.content_type = XmlContentType,
                    !.pc = "done"]
    ELSE [st EXCEPT !.status = 500, !.resp_body = st.body \o ErrorBody(st.result.err),
                    !.content_type = XmlContentType, !.pc = "done"]

\* match body { Ok(b) => b, Err(e) => { 500; format!("Error: {}", e) } }
RespondTo(st) ==
    IF IsOk(st.result)
    THEN [st EXCEPT !.resp_body = st.result.val, !.content_type = XmlContentType,
                    !.pc = "done"]
    ELSE [st EXCEPT !.status = 500, !.resp_body = ErrorBody(st.result.err),
                    !.content_type = XmlContentType, !.pc = "done"]

read_temp_respond(p) ==
    /\ proc[p].pc = "ret"
    /\ proc' = [proc EXCEPT ![p] = RespondTo(proc[p])]
    /\ UNCHANGED <<env, test_outcome, probe>>

\* The environment of the process: TEST_MODE takes another value.
SetEnv(v) ==
    /\ v # env
    /\ env' = v
    /\ UNCHANGED <<proc, test_outcome, probe>>

(***************************************************************************)
(* The unit level: tests::format_temps, and a harness that applies         *)
(* RealSensor::get_ids or RealSensor::get_celcius to one file content.     *)
(***************************************************************************)
\* get_temps::<FakeClock, FakeSensor>()
format_temps_start ==
    /\ proc[TestProc].pc = "idle"
    /\ test_outcome = "none"
    /\ proc' = [proc EXCEPT ![TestProc].clock = "FakeClock",
                            ![TestProc].sensor = "FakeSensor",
                            ![TestProc].pc = "now"]
    /\ UNCHANGED <<env, test_outcome, probe>>

ExpectedReport ==
    << "<a updated='2020-01-01 00-00'>",
       "<owd>", "<Name>DS18B20</Name>", "<ROMId>id1</ROMId>",
       "<Temperature>0.0</Temperature>", "<TemperatureF>32.0</TemperatureF>", "</owd>",
       "<owd>", "<Name>DS18B20</Name>", "<ROMId>id2</ROMId>",
       "<Temperature>100.0</Temperature>", "<TemperatureF>212.0</TemperatureF>", "</owd>",
       "<owd>", "<Name>DS18B20</Name>", "<ROMId>id3</ROMId>",
       "<Temperature>-40.0</Temperature>", "<TemperatureF>-40.0</TemperatureF>", "</owd>",
       "</a>" >>

\* assert_eq!(expected, &get_temps::<FakeClock,FakeSensor>().unwrap())
format_temps_assert ==
    /\ proc[TestProc].pc = "ret"
    /\ test_outcome' =
           IF IsOk(proc[TestProc].result) /\ proc[TestProc].result.val = ExpectedReport
           THEN "passed" ELSE "failed"
    /\ proc' = [proc EXCEPT ![TestProc].pc = "done"]
    /\ UNCHANGED <<env, probe>>

probe_get_ids ==
    /\ probe.pc = "ready" /\ probe.fn = "get_ids"
    /\ probe' = [probe EXCEPT !.output = RealSensor_get_ids(probe.input), !.pc = "done"]
    /\ UNCHANGED <<env, proc, test_outcome>>

probe_get_celcius ==
    /\ probe.pc = "ready" /\ probe.fn = "get_celcius"
    /\ probe' = [probe EXCEPT !.output = RealSensor_get_celcius(probe.input),
                              !.pc = "done"]
    /\ UNCHANGED <<env, proc, test_outcome>>

InitUnit ==
    /\ env = EnvUnset
    /\ InitProcs
    /\ test_outcome = "none"
    /\ probe \in {[pc |-> "ready", fn |-> "get_ids", input |-> f, output |-> NoResult] :
                      f \in ProbeDeviceLists}
               \cup {[pc |-> "ready", fn |-> "get_celcius", input |-> f,
                      output |-> NoResult] : f \in ProbeSlaveFiles}

NextUnit ==
    \/ probe_get_ids
    \/ probe_get_celcius
    \/ format_temps_start
    \/ get_temps_now(TestProc)
    \/ get_temps_get_ids(TestProc)
    \/ get_temps_read(TestProc)
    \/ get_temps_finish(TestProc)
    \/ format_temps_assert

SpecUnit == InitUnit /\ [][NextUnit]_vars

Next ==
    \/ \E p \in Reqs, m \in Methods, u \in Paths : Receive(p, m, u)
    \/ \E p \in Reqs : read_temp_match(p)
    \/ \E p \in Reqs : get_temps_now(p)
    \/ \E p \in Reqs : get_temps_get_ids(p)
    \/ \E p \in Reqs : get_temps_read(p)
    \/ \E p \in Reqs : get_temps_finish(p)
    \/ \E p \in Reqs : read_temp_respond(p)
    \/ \E v \in EnvValues : SetEnv(v)

Spec == Init /\ [][Next]_vars

(***************************************************************************)
(* Properties of the request handler and the report generator (Spec).      *)
(***************************************************************************)
Range(f) == {f[k] : k \in DOMAIN f}
AllOk(calls) == \A k \in DOMAIN calls : IsOk(calls[k].ret)
ReadCalls(calls) == SelectSeq(calls, LAMBDA c : c.op = "get_celcius")

\* The ids the request's own get_ids call returned.
EnumeratedIds(calls) ==
    IF Len(calls) >= 2 /\ IsOk(calls[2].ret) THEN calls[2].ret.val ELSE <<>>

\* The report text that the logged calls determine: the root line for the
\* logged timestamp, one record per successful read, the closing line.
RECURSIVE BlocksOf(_)
BlocksOf(reads) ==
    IF reads = <<>> THEN <<>>
    ELSE (IF IsOk(Head(reads).ret)
          THEN << "<owd>", "<Name>DS18B20</Name>",
                  "<ROMId>" \o Head(reads).arg \o "</ROMId>",
                  "<Temperature>" \o FormatOneDecimal(Head(reads).ret.val)
                      \o "</Temperature>",
                  "<TemperatureF>"
                      \o FormatOneDecimal(
                             F32AddSmall(F32DivSmall(F32MulSmall(Head(reads).ret.val, 9), 5), 32))
                      \o "</TemperatureF>",
                  "</owd>" >>
          ELSE <<>>) \o BlocksOf(Tail(reads))
ReportOf(calls) ==
    <<"<a updated='" \o calls[1].ret.val \o "'>">> \o BlocksOf(ReadCalls(calls)) \o <<"</a>">>

Served(p) == proc[p].pc = "done" /\ proc[p].method = "GET" /\ proc[p].path = "/details.xml"

GenerationSucceeded(calls) ==
    /\ Len(calls) >= 2
    /\ AllOk(calls)
    /\ Len(calls) = 2 + Len(calls[2].ret.val)

\* C1: a GET /details.xml is answered 200 with the complete report exactly
\* when get_ids and every get_celcius succeeded; otherwise it is answered 500
\* with the body "Error: <description of the failed call>", and no line of
\* the report built from the earlier, successful calls is in that body.
C1_AllOrNothing ==
    \A p \in Reqs :
        Served(p) =>
            LET c == proc[p].calls
                last == c[Len(c)]
            IN  /\ Len(c) >= 2
                /\ IF GenerationSucceeded(c)
                   THEN /\ proc[p].status = 200
                        /\ proc[p].resp_body = ReportOf(c)
                   ELSE /\ proc[p].status = 500
                        /\ IsErr(last.ret)
                        /\ proc[p].resp_body = <<"Error: " \o last.ret.err>>
                        /\ \A k \in DOMAIN proc[p].resp_body :
                               proc[p].resp_body[k] \notin Range(ReportOf(c))
                /\ proc[p].status = 200 <=> GenerationSucceeded(c)

\* The read of the second sensor failed after the first one succeeded.
C1_Witness ==
    \E p \in Reqs :
        /\ Served(p)
        /\ Len(proc[p].calls) = 4
        /\ IsOk(proc[p].calls[3].ret)
        /\ IsErr(proc[p].calls[4].ret)
        /\ proc[p].status = 500

\* C3: a successful generation returns the root line, then one record per
\* element of the enumerated id sequence, the i-th record carrying the i-th
\* id, then the closing line; this includes the empty sequence and repeated
\* ids, and the request is then answered 200 with that text.
C3_OneBlockPerId ==
    \A p \in Reqs :
        (proc[p].pc \in {"ret", "done"} /\ IsOk(proc[p].result)) =>
            LET ids == EnumeratedIds(proc[p].calls)
                text == proc[p].result.val
            IN  /\ IsOk(proc[p].calls[2].ret)
                /\ Len(text) = 6 * Len(ids) + 2
                /\ text[1] = "<a updated='" \o proc[p].now \o "'>"
                /\ text[Len(text)] = "</a>"
                /\ \A i \in 1..Len(ids) :
                       /\ text[6 * (i - 1) + 2] = "<owd>"
                       /\ text[6 * (i - 1) + 4] = "<ROMId>" \o ids[i] \o "</ROMId>"
                       /\ text[6 * (i - 1) + 7] = "</owd>"
                /\ Cardinality({k \in DOMAIN text : text[k] = "<owd>"}) = Len(ids)
                /\ proc[p].pc = "done" => proc[p].status = 200 /\ proc[p].resp_body = text

\* One request served an empty enumeration, another one an enumeration of
\* two different ids.
C3_Witness ==
    \E p, q \in Reqs :
        /\ Served(p) /\ proc[p].status = 200
        /\ proc[p].calls[2].ret.val = <<>>
        /\ proc[p].resp_body = <<"<a updated='" \o proc[p].now \o "'>", "</a>">>
        /\ Served(q) /\ proc[q].status = 200
        /\ proc[q].calls[2].ret.val = <<"a", "b">>

\* C4: a request that is not GET /details.xml is answered 404 with an empty
\* body, and calls neither the clock nor a sensor source.
C4_NotFound ==
    \A p \in Reqs :
        (proc[p].pc # "idle"
            /\ ~(proc[p].method = "GET" /\ proc[p].path = "/details.xml")) =>
                /\ proc[p].calls = <<>>
                /\ proc[p].pc \in {"match", "done"}
                /\ proc[p].pc = "done" =>
                       proc[p].status = 404 /\ proc[p].resp_body = <<>>

\* A POST to /details.xml and a GET of another path have been answered.
C4_Witness ==
    \E p, q \in Reqs :
        /\ proc[p].pc = "done" /\ proc[p].method = "POST"
        /\ proc[p].path = "/details.xml" /\ proc[p].status = 404
        /\ proc[q].pc = "done" /\ proc[q].method = "GET"
        /\ proc[q].path = "/" /\ proc[q].status = 404

Running == {"now", "get_ids", "loop", "ret"}

\* C5: a request reads TEST_MODE once, when it is dispatched: the stand-in
\* is chosen iff the value is exactly "1"; the choice does not change while
\* the request runs, whatever happens to TEST_MODE, and every sensor call of
\* the request goes to the chosen source.
C5_OneSourcePerRequest ==
    [][\A p \in Reqs :
          /\ (proc[p].pc = "match" /\ proc'[p].pc = "now") =>
                 proc'[p].sensor = IF env = Ok("1") THEN "FakeSensor" ELSE "RealSensor"
          /\ (proc[p].pc \in Running /\ proc'[p].pc \in Running \cup {"done"}) =>
                 proc'[p].sensor = proc[p].sensor
          /\ \A k \in DOMAIN proc'[p].calls :
                 proc'[p].calls[k].op # "now_local" =>
                     proc'[p].calls[k].src = proc'[p].sensor
       ]_vars

\* With TEST_MODE now set to "true", a request dispatched under "1" is still
\* reading the stand-in while another one reads the hardware.
C5_Witness ==
    \E p, q \in Reqs :
        /\ env = Ok("true")
        /\ proc[p].pc = "loop" /\ proc[p].sensor = "FakeSensor"
        /\ Len(proc[p].calls) = 4
        /\ proc[q].pc = "loop" /\ proc[q].sensor = "RealSensor"
        /\ Len(proc[q].calls) = 3

\* C9: the calls of one generation are: the clock once, then get_ids once,
\* then get_celcius for the enumerated ids in order, one call per position;
\* nothing is called after a failed call, so there are at most Len(ids) reads.
C9_CallOrder ==
    \A p \in Reqs :
        LET c == proc[p].calls
            ids == EnumeratedIds(c)
        IN  /\ Len(c) >= 1 => c[1].op = "now_local" /\ c[1].src = "RealClock"
            /\ Len(c) >= 2 => c[2].op = "get_ids"
            /\ \A k \in 3..Len(c) :
                   /\ c[k].op = "get_celcius"
                   /\ k - 2 <= Len(ids)
                   /\ c[k].arg = ids[k - 2]
            /\ \A k \in 1..(Len(c) - 1) : IsOk(c[k].ret)
            /\ Len(ReadCalls(c)) <= Len(ids)
            /\ (proc[p].pc \in {"ret", "done"} /\ Len(c) >= 1) =>
                   (~IsOk(c[Len(c)].ret) \/ Len(c) = 2 + Len(ids))

\* The read of the first of two enumerated ids failed and the request ended
\* without reading the second.
C9_Witness ==
    \E p \in Reqs :
        /\ Served(p)
        /\ Len(proc[p].calls) = 3
        /\ Len(proc[p].calls[2].ret.val) = 2
        /\ IsErr(proc[p].calls[3].ret)

\* C10: every id passed to get_celcius is an element of the sequence the
\* same generation's get_ids returned; the stand-in is only asked for
\* "id1", "id2" or "id3" and never reaches unreachable!(), under every
\* interleaving of the requests.
C10_OwnIdsOnly ==
    \A p \in Reqs :
        /\ proc[p].pc # "panicked"
        /\ \A k \in DOMAIN proc[p].calls :
               LET c == proc[p].calls[k]
               IN  c.op = "get_celcius" =>
                       /\ c.arg \in Range(EnumeratedIds(proc[p].calls))
                       /\ ~IsPanic(c.ret)
                       /\ c.src = "FakeSensor" => c.arg \in {"id1", "id2", "id3"}

\* A request on the stand-in has read its three ids while a request on the
\* hardware, which enumerated other ids, is in its loop.
C10_Witness ==
    \E p, q \in Reqs :
        /\ proc[p].sensor = "FakeSensor" /\ Len(proc[p].calls) = 5
        /\ proc[q].sensor = "RealSensor" /\ proc[q].pc = "loop"
        /\ proc[q].ids = <<"a", "b">> /\ Len(proc[q].calls) = 3
(***************************************************************************)
(* Properties of the unit level (SpecUnit).                                *)
(***************************************************************************)
\* C2: get_temps::<FakeClock, FakeSensor>() returns exactly the expected
\* document (ids id1, id2, id3 in that order, 0.0/32.0, 100.0/212.0,
\* -40.0/-40.0, timestamp 2020-01-01 00-00), so tests::format_temps passes.
C2_FormatTemps ==
    /\ test_outcome # "failed"
    /\ proc[TestProc].pc \in {"ret", "done"} =>
           /\ IsOk(proc[TestProc].result)
           /\ proc[TestProc].result.val = ExpectedReport
           /\ Len(proc[TestProc].result.val) = 20

C2_Witness == test_outcome = "passed" /\ proc[TestProc].pc = "done"

Probed(fn) == probe.pc = "done" /\ probe.fn = fn

NonEmptyLines(lines) == SelectSeq(lines, LAMBDA l : l # "")

\* C6 (as claimed): get_ids returns the non-empty lines of the device list,
\* in file order; an empty line never becomes a SensorId.
C6_Claimed_NonEmptyLinesOnly ==
    (Probed("get_ids") /\ IsOk(probe.output)) =>
        /\ probe.output.val = NonEmptyLines(probe.input.lines)
        /\ "" \notin Range(probe.output.val)

\* C6 (amended): get_ids fails when the device list cannot be opened or
\* holds a line that is not UTF-8, and otherwise returns one SensorId per
\* line of the file, in file order, empty lines included: an empty line
\* becomes the SensorId "".
C6_EveryLineIsAnId ==
    Probed("get_ids") =>
        LET f == probe.input
            readable == f.exists /\ BadUtf8Id \notin Range(f.lines)
        IN  /\ IsOk(probe.output) <=> readable
            /\ ~readable => IsErr(probe.output)
            /\ readable =>
                   /\ Len(probe.output.val) = Len(f.lines)
                   /\ \A k \in DOMAIN f.lines : probe.output.val[k] = f.lines[k]

\* A device list with an empty line was enumerated, and "" is among the ids.
C6_Witness ==
    /\ Probed("get_ids")
    /\ "" \in Range(probe.input.lines)
    /\ IsOk(probe.output)
    /\ "" \in Range(probe.output.val)

\* Positions of '=' in a line, and the text between two positions.
EqPositions(line) == {k \in DOMAIN line : line[k] = "="}
Min(S) == CHOOSE x \in S : \A y \in S : x <= y
Max(S) == CHOOSE x \in S : \A y \in S : x >= y
AfterLastEq(line) == SubSeq(line, Max(EqPositions(line)) + 1, Len(line))
AfterFirstEq(line) ==
    LET first == Min(EqPositions(line))
        later == {k \in EqPositions(line) : k > first}
    IN  SubSeq(line, first + 1, IF later = {} THEN Len(line) ELSE Min(later) - 1)

\* A file whose two first lines are text and whose second line has an '='.
HasDataLine(f) ==
    /\ f.exists
    /\ Len(f.lines) >= 2
    /\ f.lines[1] # BadUtf8Line
    /\ f.lines[2] # BadUtf8Line
    /\ EqPositions(f.lines[2]) # {}

\* The reading that a number text stands for: the i32 as f32, over 1000.
ReadingOf(text) ==
    LET n == from_str_radix(text)
    IN  IF IsOk(n) THEN Ok(F32DivSmall(F32FromI32(n.val), 1000)) ELSE n

\* C7 (as claimed): get_celcius returns the integer after the last '=' of
\* the data line, divided by 1000.
C7_Claimed_AfterLastEq ==
    (Probed("get_celcius") /\ HasDataLine(probe.input)) =>
        probe.output = ReadingOf(AfterLastEq(probe.input.lines[2]))

\* C7 (amended): get_celcius parses the text between the first '=' of the
\* data line and the next '=' (or the end of the line) as signed decimal
\* milli-Celsius and returns it divided by 1000; for a data line with more
\* than one '=' this is the text between the first and the second '=', not
\* what follows the last '='.
C7_AfterFirstEq ==
    (Probed("get_celcius") /\ HasDataLine(probe.input)) =>
        /\ probe.output = ReadingOf(AfterFirstEq(probe.input.lines[2]))
        /\ probe.input.lines[2] = DataLine23125 =>
               IsOk(probe.output) /\ FormatOneDecimal(probe.output.val) = "23.1"
        /\ probe.input.lines[2] = DataLineNeg =>
               IsOk(probe.output) /\ FormatOneDecimal(probe.output.val) = "-1.1"
        /\ probe.input.lines[2] = DataLineTwoEq =>
               IsOk(probe.output) /\ FormatOneDecimal(probe.output.val) = "1.0"

\* A data line with two '=' ("a=1000=2000") was read as 1.0.
C7_Witness ==
    /\ Probed("get_celcius")
    /\ HasDataLine(probe.input)
    /\ Cardinality(EqPositions(probe.input.lines[2])) = 2
    /\ IsOk(probe.output)
    /\ probe.output.val = F32FromI32(1)

\* Whether a text is a signed base-10 integer that fits an i32: an optional
\* sign, at least one digit, only digits, and a magnitude within range.
RECURSIVE StripZeros(_)
StripZeros(ds) == IF ds # <<>> /\ Head(ds) = "0" THEN StripZeros(Tail(ds)) ELSE ds
I32MaxDigits == <<"2", "1", "4", "7", "4", "8", "3", "6", "4", "7">>
I32MinDigits == <<"2", "1", "4", "7", "4", "8", "3", "6", "4", "8">>
RECURSIVE DigitsLeq(_, _)
DigitsLeq(a, b) ==
    IF a = <<>> THEN TRUE
    ELSE IF DigitVal(Head(a)) # DigitVal(Head(b)) THEN DigitVal(Head(a)) < DigitVal(Head(b))
    ELSE DigitsLeq(Tail(a), Tail(b))
ValidI32Text(text) ==
    LET signed == text # <<>> /\ Head(text) \in {"+", "-"}
        ds == IF signed THEN Tail(text) ELSE text
        sig == StripZeros(ds)
        limit == IF signed /\ Head(text) = "-" THEN I32MinDigits ELSE I32MaxDigits
    IN  /\ ds # <<>>
        /\ \A k \in DOMAIN ds : ds[k] \in Digits
        /\ \/ Len(sig) < 10
           \/ Len(sig) = 10 /\ DigitsLeq(sig, limit)

\* The per-device files the claim names.
MalformedSlaveFile(f) ==
    /\ f.exists
    /\ \/ Len(f.lines) < 2
       \/ /\ f.lines[1] # BadUtf8Line /\ f.lines[2] # BadUtf8Line
          /\ \/ EqPositions(f.lines[2]) = {}
             \/ AfterFirstEq(f.lines[2]) = <<>>
             \/ ~ValidI32Text(AfterFirstEq(f.lines[2]))

\* C8: get_celcius returns an error (no temperature, no panic) when the
\* first or the second line is missing, the second line has no '=', or the
\* text after the '=' is empty or not a signed base-10 i32; and it returns a
\* temperature only for a file with two lines whose text after the '=' is
\* such an integer.
C8_MalformedIsError ==
    Probed("get_celcius") =>
        /\ MalformedSlaveFile(probe.input) => IsErr(probe.output)
        /\ IsOk(probe.output) =>
               /\ HasDataLine(probe.input)
               /\ ValidI32Text(AfterFirstEq(probe.input.lines[2]))

\* The data line "t=abc" was read and gave an error.
C8_Witness ==
    /\ Probed("get_celcius")
    /\ probe.input = File(<<CrcLine, DataLineAbc>>)
    /\ IsErr(probe.output)
    /\ probe.output.err = "invalid digit found in string"
====
